---- MODULE Spec2Model ----
(***************************************************************************)
(* A model of hoek's structural traversal engine (lib/index.js): clone,    *)
(* merge, applyToDefaults and contain, over an explicit heap of objects.   *)
(*                                                                         *)
(* A heap is a sequence of objects; the index of an object is its          *)
(* identity (JavaScript reference equality is equality of indices).        *)
(* Every public operation is one action that runs the whole call.          *)
(***************************************************************************)
EXTENDS Integers, Sequences, FiniteSets, TLC

VARIABLES
    heap,       \* the object heap after the last step
    heap0,      \* the heap as it was when the call started
    phase,      \* "ready" (inputs built, no call made) or "done" (call ended)
    call,       \* the call that was made: operation, arguments, options
    ret,        \* what the call returned or raised
    tally       \* contain's matches array and misses flag at the verdict

vars == <<heap, heap0, phase, call, ret, tally>>

(***************************************************************************)
(* Bounds of the model.                                                    *)
(***************************************************************************)
\* size of the graph passed to clone: the number of slots (own properties,
\* elements) it fills plus the number of its objects that are not plain
\* mutable records
MaxSize == 3
\* size, counted the same way, of the two graphs passed to merge and
\* applyToDefaults together
MaxMergeSize == 4
\* depth of nested calls the engine's call stack holds before RangeError
MaxDepth == 6
\* length of the text or of the sequence passed to contain as reference
MaxRefLen == 3
\* number of requested values passed to contain in a list
MaxValues == 2

(***************************************************************************)
(* Values.  A JavaScript value is a primitive, null, undefined, true or a  *)
(* reference to a heap object.  Absent marks a property an object does not *)
(* own (reading it yields undefined).                                      *)
(***************************************************************************)
Prim(n) == [k |-> "prim", n |-> n]
Ref(i) == [k |-> "ref", n |-> i]
Undef == [k |-> "undef", n |-> 0]
Null == [k |-> "null", n |-> 0]
True == [k |-> "true", n |-> 0]
False == [k |-> "false", n |-> 0]
Absent == [k |-> "absent", n |-> 0]

IsRef(v) == v.k = "ref"

\* own keys in the order Reflect.ownKeys lists them: integer keys, strings,
\* then symbols.  On an array the key "0" is its first element.
KeyOrder == <<"0", "a", "b", "sym">>
KeySet == {KeyOrder[i] : i \in 1..Len(KeyOrder)}
SymbolKeys == {"sym"}

Tags == {"record", "array", "set", "map", "date", "regex", "buffer"}
LeafTags == {"date", "regex", "buffer"}

NoProps == [key \in KeySet |-> Absent]

\* an object: its type tag (Types.getInternalProto), whether its prototype
\* declares isImmutable, its own properties, its elements (array items, set
\* members, map values), its map keys, and its payload (timestamp, pattern,
\* bytes)
Obj(tag, imm, props, items, mkeys, data) ==
    [tag |-> tag, imm |-> imm, props |-> props, items |-> items,
     mkeys |-> mkeys, data |-> data]

EmptyObj(tag) == Obj(tag, FALSE, NoProps, <<>>, <<>>, 0)

\* the slot obj[key] names: an own property, or the first element of an array
Slot(obj, key) ==
    IF obj.tag = "array" /\ key = "0"
    THEN IF Len(obj.items) >= 1 THEN obj.items[1] ELSE Absent
    ELSE obj.props[key]

\* obj[key]: undefined when obj is a primitive or does not own the key
Get(h, v, key) ==
    IF IsRef(v) /\ Slot(h[v.n], key) # Absent THEN Slot(h[v.n], key) ELSE Undef

\* obj[key] = value
Put(h, id, key, value) ==
    IF h[id].tag = "array" /\ key = "0"
    THEN IF Len(h[id].items) >= 1
         THEN [h EXCEPT ![id].items[1] = value]
         ELSE [h EXCEPT ![id].items = <<value>>]
    ELSE [h EXCEPT ![id].props[key] = value]

\* typeof value === 'object' (null included)
TypeofObject(v) == v.k \in {"ref", "null"}

\* a truthy value that is typeof 'object'
IsObject(v) == IsRef(v)

(***************************************************************************)
(* reach(obj, chain) with default options, for a chain of property names.  *)
(***************************************************************************)
RECURSIVE ReachFrom(_, _, _, _)
ReachFrom(h, ref, path, i) ==
    IF i > Len(path) THEN ref
    ELSE IF Get(h, ref, path[i]) = Undef THEN Undef     \* options.default
    ELSE ReachFrom(h, Get(h, ref, path[i]), path, i + 1)

Reach(h, obj, path) == ReachFrom(h, obj, path, 1)

(***************************************************************************)
(* internals.reachSet(obj, key, value): walks the path and assigns at the  *)
(* last segment.  Reading or writing a property of undefined, null or (in  *)
(* strict mode) writing one on a primitive raises TypeError.               *)
(***************************************************************************)
RECURSIVE ReachSetFrom(_, _, _, _, _)
ReachSetFrom(h, ref, path, i, value) ==
    IF i > Len(path) THEN [h |-> h, st |-> "ok"]
    ELSE IF ~IsRef(ref) THEN [h |-> h, st |-> "TypeError"]
    ELSE IF i = Len(path)
         THEN [h |-> Put(h, ref.n, path[i], value), st |-> "ok"]
         ELSE ReachSetFrom(h, Get(h, ref, path[i]), path, i + 1, value)

ReachSet(h, obj, path, value) == ReachSetFrom(h, obj, path, 1, value)

(***************************************************************************)
(* internals.store(source, keys): detaches every listed path whose value   *)
(* is an object (or null), remembering it; the path is left undefined.     *)
(***************************************************************************)
StorageSet(storage, path, value) ==
    IF \E j \in 1..Len(storage) : storage[j].path = path
    THEN [j \in 1..Len(storage) |->
            IF storage[j].path = path THEN [path |-> path, value |-> value]
            ELSE storage[j]]
    ELSE Append(storage, [path |-> path, value |-> value])

RECURSIVE StoreFrom(_, _, _, _, _)
StoreFrom(h, source, keys, i, storage) ==
    IF i > Len(keys) THEN [h |-> h, storage |-> storage]
    ELSE LET value == Reach(h, source, keys[i])
         IN  IF TypeofObject(value)
             THEN StoreFrom(ReachSet(h, source, keys[i], Undef).h, source, keys,
                            i + 1, StorageSet(storage, keys[i], value))
             ELSE StoreFrom(h, source, keys, i + 1, storage)

Store(h, source, keys) == StoreFrom(h, source, keys, 1, <<>>)

(***************************************************************************)
(* internals.restore(copy, source, storage): reattaches every stored value *)
(* on the copy and then on the source, in storage order; the first         *)
(* TypeError ends it.                                                      *)
(***************************************************************************)
RECURSIVE RestoreFrom(_, _, _, _, _)
RestoreFrom(h, copy, source, storage, i) ==
    IF i > Len(storage) THEN [h |-> h, st |-> "ok"]
    ELSE LET onCopy == ReachSet(h, copy, storage[i].path, storage[i].value)
         IN  IF onCopy.st # "ok" THEN onCopy
             ELSE LET onSource == ReachSet(onCopy.h, source, storage[i].path,
                                           storage[i].value)
                  IN  IF onSource.st # "ok" THEN onSource
                      ELSE RestoreFrom(onSource.h, copy, source, storage, i + 1)

Restore(h, copy, source, storage) == RestoreFrom(h, copy, source, storage, 1)

(***************************************************************************)
(* exports.clone.                                                          *)
(*                                                                         *)
(* opts.shallow is "false" or "true" here; a list of key-paths is handled  *)
(* by CloneWithShallow before the recursion starts.  seen is the Map from  *)
(* source identity to the copy already made for it, as a set of pairs.     *)
(* Every result is [h, seen, v, st]: the heap, the Map, the value returned *)
(* and "ok" or the error raised.                                           *)
(***************************************************************************)
CloneOpts(prototype, symbols, shallow) ==
    [prototype |-> prototype, symbols |-> symbols, shallow |-> shallow]

Result(h, seen, v, st) == [h |-> h, seen |-> seen, v |-> v, st |-> st]

\* internals.keys(obj, options): the own property names, symbols included
\* unless options.symbols === false (array indices are walked by CloneItems)
InternalKeys(obj, symbols) ==
    SelectSeq(KeyOrder, LAMBDA key :
        obj.props[key] # Absent /\ (symbols \/ key \notin SymbolKeys))

\* a clone that never finds a source identity in seen
SeenLookupNever(seen, id) == 0

\* seen.get(obj): the copy registered for a source identity, 0 when none
SeenLookup(seen, id) ==
    IF \E p \in seen : p[1] = id
    THEN (CHOOSE p \in seen : p[1] = id)[2]
    ELSE 0

\* a clone that copies an object whose prototype declares isImmutable
CloneBaseNoImmutable(obj, opts) ==
    IF obj.tag \in LeafTags
    THEN [kind |-> "leaf", obj |-> Obj(obj.tag, FALSE, NoProps, <<>>, <<>>, obj.data)]
    ELSE [kind |-> "new", obj |-> EmptyObj(obj.tag)]

\* the switch on baseProto: a finished copy of a buffer, date or regex
\* ("leaf"), the object itself when its prototype is immutable ("same"), or
\* a new empty container of the same kind ("new")
CloneBase(obj, opts) ==
    IF obj.tag \in LeafTags
    THEN [kind |-> "leaf", obj |-> Obj(obj.tag, FALSE, NoProps, <<>>, <<>>, obj.data)]
    ELSE IF obj.tag = "array"
    THEN [kind |-> "new", obj |-> EmptyObj("array")]
    ELSE IF opts.prototype
         THEN IF obj.imm
              THEN [kind |-> "same", obj |-> obj]
              ELSE [kind |-> "new", obj |-> EmptyObj(obj.tag)]
         ELSE [kind |-> "new", obj |-> EmptyObj(obj.tag)]

\* Set.prototype.add
SetAdd(items, v) ==
    IF \E j \in 1..Len(items) : items[j] = v THEN items ELSE Append(items, v)

\* the element written into the copy: array index, set member or map entry
AddItem(new, tag, mkey, v) ==
    IF tag = "set" THEN [new EXCEPT !.items = SetAdd(@, v)]
    ELSE IF tag = "map"
    THEN IF \E j \in 1..Len(new.mkeys) : new.mkeys[j] = mkey
         THEN [new EXCEPT !.items = [j \in 1..Len(@) |->
                                        IF new.mkeys[j] = mkey THEN v ELSE @[j]]]
         ELSE [new EXCEPT !.items = Append(@, v), !.mkeys = Append(@, mkey)]
    ELSE [new EXCEPT !.items = Append(@, v)]

RECURSIVE CloneVal(_, _, _, _, _)
RECURSIVE CloneItems(_, _, _, _, _, _, _)
RECURSIVE CloneProps(_, _, _, _, _, _, _, _)

\* a clone that copies every nested value by reference
CloneChildByReference(h, seen, v, opts, depth) == Result(h, seen, v, "ok")

\* clone(value, options, seen) as the loops call it; the identity function
\* when options.shallow === true
CloneChild(h, seen, v, opts, depth) ==
    IF opts.shallow = "true" THEN Result(h, seen, v, "ok")
    ELSE CloneVal(h, seen, v, opts, depth + 1)

CloneVal(h, seen, v, opts, depth) ==
    IF ~IsRef(v) THEN Result(h, seen, v, "ok")
    ELSE IF depth > MaxDepth THEN Result(h, seen, Undef, "RangeError")
    ELSE IF opts.shallow = "false" /\ SeenLookup(seen, v.n) # 0
    THEN Result(h, seen, Ref(SeenLookup(seen, v.n)), "ok")
    ELSE LET obj == h[v.n]
             base == CloneBase(obj, opts)
             new == Len(h) + 1
         IN  IF base.kind = "same" THEN Result(h, seen, v, "ok")
             ELSE IF base.kind = "leaf"
             THEN Result(Append(h, base.obj), seen, Ref(new), "ok")
             ELSE LET seen1 == IF opts.shallow = "false"
                               THEN seen \cup {<<v.n, new>>} ELSE seen
                      r1 == CloneItems(Append(h, base.obj), seen1, v.n, new, 1,
                                       opts, depth)
                  IN  IF r1.st # "ok" THEN r1
                      ELSE LET r2 == CloneProps(r1.h, r1.seen, v.n, new,
                                                InternalKeys(obj, opts.symbols),
                                                1, opts, depth)
                           IN  IF r2.st # "ok" THEN r2
                               ELSE Result(r2.h, r2.seen, Ref(new), "ok")

\* the elements of an array (its index keys), a set or a map, in order
CloneItems(h, seen, src, new, i, opts, depth) ==
    IF i > Len(h[src].items) THEN Result(h, seen, Undef, "ok")
    ELSE LET r == CloneChild(h, seen, h[src].items[i], opts, depth)
             mkey == IF h[src].tag = "map" THEN h[src].mkeys[i] ELSE Undef
         IN  IF r.st # "ok" THEN r
             ELSE CloneItems([r.h EXCEPT ![new] = AddItem(@, h[src].tag, mkey, r.v)],
                             r.seen, src, new, i + 1, opts, depth)

\* the own properties, each defined on the copy with a clone of its value
CloneProps(h, seen, src, new, keys, i, opts, depth) ==
    IF i > Len(keys) THEN Result(h, seen, Undef, "ok")
    ELSE LET r == CloneChild(h, seen, h[src].props[keys[i]], opts, depth)
         IN  IF r.st # "ok" THEN r
             ELSE CloneProps([r.h EXCEPT ![new].props[keys[i]] = r.v],
                             r.seen, src, new, keys, i + 1, opts, depth)

\* internals.cloneWithShallow(source, options)
CloneWithShallow(h, source, keys, opts) ==
    LET stored == Store(h, source, keys)
        copy == CloneVal(stored.h, {}, source, [opts EXCEPT !.shallow = "false"], 1)
    IN  IF copy.st # "ok" THEN [h |-> copy.h, v |-> Undef, st |-> copy.st]
        ELSE LET restored == Restore(copy.h, copy.v, source, stored.storage)
             IN  [h |-> restored.h,
                  v |-> IF restored.st = "ok" THEN copy.v ELSE Undef,
                  st |-> restored.st]

\* exports.clone(obj, options) as a caller invokes it: keys is the list given
\* as options.shallow, or the empty list when shallow is not a list
Clone(h, obj, keys, opts) ==
    IF ~IsRef(obj) THEN [h |-> h, v |-> obj, st |-> "ok"]
    ELSE IF keys # <<>> THEN CloneWithShallow(h, obj, keys, opts)
    ELSE LET r == CloneVal(h, {}, obj, opts, 1)
         IN  [h |-> r.h, v |-> r.v, st |-> r.st]

(***************************************************************************)
(* exports.merge(target, source, options).  Every result is [h, st]: the   *)
(* heap and "ok" or the error raised ("Error" for a failed assert,         *)
(* "RangeError" when the recursion exceeds the call stack).                *)
(***************************************************************************)
MergeOpts(nullOverride, mergeArrays, symbols) ==
    [nullOverride |-> nullOverride, mergeArrays |-> mergeArrays, symbols |-> symbols]

\* a merge that lets null and undefined through whatever nullOverride says
OverwritesAlways(value, opts) == TRUE

\* whether a source value that is no object is written to the target slot
Overwrites(value, opts) ==
    IF value \notin {Null, Undef} THEN TRUE ELSE opts.nullOverride

\* whether the target slot is replaced by a clone of the source object
\* rather than merged into
Replaces(h, tv, value) ==
    \/ ~IsRef(tv)
    \/ (h[tv.n].tag = "array") # (h[value.n].tag = "array")
    \/ h[value.n].tag \in LeafTags

RECURSIVE MergeVal(_, _, _, _, _)
RECURSIVE MergeKeys(_, _, _, _, _, _, _)
RECURSIVE MergePush(_, _, _, _, _, _)

MergeVal(h, target, source, opts, depth) ==
    IF ~IsRef(target) THEN [h |-> h, st |-> "Error"]
    ELSE IF source.k \notin {"null", "undef", "ref"} THEN [h |-> h, st |-> "Error"]
    ELSE IF ~IsRef(source) THEN [h |-> h, st |-> "ok"]
    ELSE IF depth > MaxDepth THEN [h |-> h, st |-> "RangeError"]
    ELSE IF h[source.n].tag = "array"
    THEN IF h[target.n].tag # "array" THEN [h |-> h, st |-> "Error"]
         ELSE MergePush(IF opts.mergeArrays THEN h
                        ELSE [h EXCEPT ![target.n].items = <<>>],
                        target, source, 1, opts, depth)
    ELSE MergeKeys(h, target, source, InternalKeys(h[source.n], opts.symbols),
                   1, opts, depth)

\* for (i < source.length) target.push(clone(source[i])): source.length is
\* read again on every turn, so pushing onto the source itself never ends
MergePush(h, target, source, i, opts, depth) ==
    IF i > Len(h[source.n].items) THEN [h |-> h, st |-> "ok"]
    ELSE IF target = source THEN [h |-> h, st |-> "RangeError"]
    ELSE LET Push(c) ==
                 IF c.st # "ok" THEN [h |-> c.h, st |-> c.st]
                 ELSE MergePush([c.h EXCEPT ![target.n].items = Append(@, c.v)],
                                target, source, i + 1, opts, depth)
         IN  Push(CloneVal(h, {}, h[source.n].items[i],
                           CloneOpts(TRUE, opts.symbols, "false"), depth + 1))

\* the loop over the source's own enumerable keys
MergeKeys(h, target, source, keys, i, opts, depth) ==
    IF i > Len(keys) THEN [h |-> h, st |-> "ok"]
    ELSE LET key == keys[i]
             value == Get(h, source, key)
             tv == Get(h, target, key)
             \* target[key] = clone(value), then the next key
             Assign(c) ==
                 IF c.st # "ok" THEN [h |-> c.h, st |-> c.st]
                 ELSE MergeKeys(Put(c.h, target.n, key, c.v), target,
                                source, keys, i + 1, opts, depth)
             \* after merge(target[key], value, options), the next key
             Merged(m) ==
                 IF m.st # "ok" THEN m
                 ELSE MergeKeys(m.h, target, source, keys, i + 1, opts, depth)
         IN  IF IsObject(value)
             THEN IF Replaces(h, tv, value)
                  THEN Assign(CloneVal(h, {}, value,
                                       CloneOpts(TRUE, opts.symbols, "false"),
                                       depth + 1))
                  ELSE Merged(MergeVal(h, tv, value, opts, depth + 1))
             ELSE MergeKeys(IF Overwrites(value, opts)
                            THEN Put(h, target.n, key, value) ELSE h,
                            target, source, keys, i + 1, opts, depth)

\* exports.merge as a caller invokes it; returns target
Merge(h, target, source, opts) ==
    LET Return(m) ==
            [h |-> m.h, v |-> IF m.st = "ok" THEN target ELSE Undef, st |-> m.st]
    IN  Return(MergeVal(h, target, source, opts, 1))

(***************************************************************************)
(* exports.applyToDefaults(defaults, source, options).  nullOverride is    *)
(* "undefined", "true" or "false"; keys is options.shallow, the empty list *)
(* when the option is not given.                                           *)
(***************************************************************************)
\* the nullOverride the shallow variant passes to merge
ShallowNullOverride(nullOverride) == FALSE

\* options.nullOverride !== undefined ? options.nullOverride : false
PlainNullOverride(nullOverride) == nullOverride = "true"

\* internals.applyToDefaultsWithShallow(defaults, source, options)
ApplyToDefaultsWithShallow(h, defaults, source, keys, nullOverride) ==
    LET Restored(copy, restored) ==
            [h |-> restored.h,
             v |-> IF restored.st = "ok" THEN copy.v ELSE Undef,
             st |-> restored.st]
        Merged(copy, stored, m) ==
            IF m.st # "ok" THEN m
            ELSE Restored(copy, Restore(m.h, copy.v, source, stored.storage))
        Stored(copy, stored) ==
            Merged(copy, stored,
                   Merge(stored.h, copy.v, source,
                         MergeOpts(ShallowNullOverride(nullOverride), FALSE, TRUE)))
        Copied(copy) ==
            IF copy.st # "ok" \/ source = True THEN copy
            ELSE Stored(copy, Store(copy.h, source, keys))
    IN  Copied(Clone(h, defaults, keys, CloneOpts(TRUE, TRUE, "list")))

ApplyToDefaults(h, defaults, source, keys, nullOverride) ==
    IF ~IsRef(defaults) THEN [h |-> h, v |-> Undef, st |-> "Error"]
    ELSE IF source.k \notin {"null", "undef", "true", "ref"}
    THEN [h |-> h, v |-> Undef, st |-> "Error"]
    ELSE IF source.k \in {"null", "undef"} THEN [h |-> h, v |-> Null, st |-> "ok"]
    ELSE IF keys # <<>>
    THEN ApplyToDefaultsWithShallow(h, defaults, source, keys, nullOverride)
    ELSE LET Copied(copy) ==
                 IF copy.st # "ok" \/ source = True THEN copy
                 ELSE Merge(copy.h, copy.v, source,
                            MergeOpts(PlainNullOverride(nullOverride), FALSE, TRUE))
         IN  Copied(Clone(h, defaults, <<>>, CloneOpts(TRUE, TRUE, "false")))

(***************************************************************************)
(* Object graphs a caller can pass.  A graph over the identities GraphIds  *)
(* gives every object two slots and a kind; the slots filled and the       *)
(* objects that are not plain mutable records number at most a given size  *)
(* together.  The slots of a record are its property a and a second key;   *)
(* of an array or set its elements; of a map the value and the key of its  *)
(* entry.                                                                  *)
(***************************************************************************)
GraphIds == {1, 2, 3}

Positions == GraphIds \X {1, 2}

\* the partial assignments of at most max (exactly n) positions to values
BoundedAssignments(pos, vals, max) ==
    UNION {[S -> vals] : S \in {T \in SUBSET pos : Cardinality(T) <= max}}

ExactAssignments(pos, vals, n) ==
    UNION {[S -> vals] : S \in {T \in SUBSET pos : Cardinality(T) = n}}

\* slot assignments paired with kind assignments, within the size budget
SizedGraphs(pos, ids, vals, kinds, max) ==
    UNION {ExactAssignments(pos, vals, n)
               \X BoundedAssignments(ids, kinds, max - n) : n \in 0..max}

SlotOf(f, id, j) == IF <<id, j>> \in DOMAIN f THEN f[<<id, j>>] ELSE Absent

Present(seq) == SelectSeq(seq, LAMBDA v : v # Absent)

BuildObj(id, kind, s1, s2, key2) ==
    IF kind.tag \in LeafTags
    THEN Obj(kind.tag, kind.imm, NoProps, <<>>, <<>>, id)
    ELSE IF kind.tag = "array"
    THEN Obj("array", kind.imm, NoProps, Present(<<s1, s2>>), <<>>, 0)
    ELSE IF kind.tag = "set"
    THEN Obj("set", kind.imm, NoProps,
             IF s1 = s2 THEN Present(<<s1>>) ELSE Present(<<s1, s2>>), <<>>, 0)
    ELSE IF kind.tag = "map"
    THEN IF s1 = Absent /\ s2 = Absent
         THEN Obj("map", kind.imm, NoProps, <<>>, <<>>, 0)
         ELSE Obj("map", kind.imm, NoProps,
                  <<IF s1 = Absent THEN Undef ELSE s1>>,
                  <<IF s2 = Absent THEN Undef ELSE s2>>, 0)
    ELSE Obj("record", kind.imm,
             [key \in KeySet |-> IF key = "a" THEN s1
                                 ELSE IF key = key2 THEN s2 ELSE Absent],
             <<>>, <<>>, 0)

PlainKind == [tag |-> "record", imm |-> FALSE]
SpecialKinds == ([tag : Tags, imm : BOOLEAN]) \ {PlainKind}

KindOf(g, id) == IF id \in DOMAIN g THEN g[id] ELSE PlainKind

BuildHeap(ids, f, g, key2) ==
    [id \in ids |->
        BuildObj(id, KindOf(g, id), SlotOf(f, id, 1), SlotOf(f, id, 2), key2)]

\* the values a slot of an object other than a buffer, date or regex holds
RefsOf(obj) ==
    {v \in {obj.props[key] : key \in KeySet}
           \cup {obj.items[j] : j \in 1..Len(obj.items)}
           \cup {obj.mkeys[j] : j \in 1..Len(obj.mkeys)} : IsRef(v)}

\* the identities reachable from a set of identities
RECURSIVE ReachableFrom(_, _)
ReachableFrom(h, ids) ==
    LET next == ids \cup {v.n : v \in UNION {RefsOf(h[i]) : i \in ids}}
    IN  IF next = ids THEN ids ELSE ReachableFrom(h, next)

ReachableOf(h, v) == IF IsRef(v) THEN ReachableFrom(h, {v.n}) ELSE {}

(***************************************************************************)
(* Clone calls: clone(root, options) on a graph rooted at object 1.        *)
(***************************************************************************)
CloneRoot == Ref(1)

CloneSlotVals == {Prim(1)} \cup {Ref(i) : i \in GraphIds}

\* a buffer, date or regex has no slots, and every object the call cannot
\* reach is left an empty plain record
CloneGraphOk(f, g) ==
    LET h == BuildHeap(GraphIds, f, g, "sym")
        live == ReachableFrom(h, {1})
    IN  /\ \A p \in DOMAIN f : p[1] \in live /\ KindOf(g, p[1]).tag \notin LeafTags
        /\ \A id \in DOMAIN g : id \in live

CloneGraphs ==
    {BuildHeap(GraphIds, x[1], x[2], "sym") :
        x \in {y \in SizedGraphs(Positions, GraphIds, CloneSlotVals, SpecialKinds,
                                 MaxSize) :
               CloneGraphOk(y[1], y[2])}}

\* key-paths for options.shallow (array-form chains of property names)
ShallowPaths == {<<"a">>, <<"a", "a">>}
ShallowLists ==
    {<<p>> : p \in ShallowPaths}
    \cup {<<p, q>> : p \in ShallowPaths, q \in ShallowPaths}

NoCall == [op |-> "none"]
NoRet == [v |-> Undef, st |-> "none"]
NoTally == [matches |-> <<>>, misses |-> FALSE]

InitClone ==
    /\ heap \in CloneGraphs
    /\ heap0 = heap
    /\ phase = "ready"
    /\ call = NoCall
    /\ ret = NoRet
    /\ tally = NoTally

\* clone(root, {prototype, symbols, shallow: false | true})
DoClone ==
    /\ phase = "ready"
    /\ \E prototype \in BOOLEAN, symbols \in BOOLEAN, shallow \in {"false", "true"} :
        LET opts == CloneOpts(prototype, symbols, shallow)
            r == Clone(heap, CloneRoot, <<>>, opts)
        IN  /\ heap' = r.h
            /\ ret' = [v |-> r.v, st |-> r.st]
            /\ call' = [op |-> "clone", obj |-> CloneRoot, keys |-> <<>>, opts |-> opts]
    /\ phase' = "done"
    /\ UNCHANGED <<heap0, tally>>

\* clone(root, {prototype, shallow: [paths]})
DoCloneWithShallow ==
    /\ phase = "ready"
    /\ \E prototype \in BOOLEAN, keys \in ShallowLists :
        LET opts == CloneOpts(prototype, TRUE, "list")
            r == Clone(heap, CloneRoot, keys, opts)
        IN  /\ heap' = r.h
            /\ ret' = [v |-> r.v, st |-> r.st]
            /\ call' = [op |-> "clone", obj |-> CloneRoot, keys |-> keys, opts |-> opts]
    /\ phase' = "done"
    /\ UNCHANGED <<heap0, tally>>

NextClone == DoClone \/ DoCloneWithShallow

SpecClone == InitClone /\ [][NextClone]_vars

(***************************************************************************)
(* Merge calls: merge(target, source, options) and applyToDefaults(        *)
(* defaults, source, options).  Object 1 is the target (the defaults) and  *)
(* object 3 a child of its graph; object 2 is the source and object 4 a    *)
(* child of its graph.  The roots have the slots a and b, the children the *)
(* slot a.  The two graphs share no object.                                *)
(***************************************************************************)
MergeIds == {1, 2, 3, 4}
TargetIds == {1, 3}
SourceGraphIds == {2, 4}
MergeTarget == Ref(1)
MergeSource == Ref(2)

TargetPositions == {<<1, 1>>, <<1, 2>>, <<3, 1>>}
SourcePositions == {<<2, 1>>, <<2, 2>>, <<4, 1>>}

TargetSlotVals == {Prim(1)} \cup {Ref(i) : i \in TargetIds}
SourceSlotVals == {Prim(2), Null} \cup {Ref(i) : i \in SourceGraphIds}

MergeKinds == {[tag |-> "array", imm |-> FALSE], [tag |-> "date", imm |-> FALSE]}

MergeGraphOk(f, g) ==
    LET h == BuildHeap(MergeIds, f, g, "b")
        live == ReachableFrom(h, {1}) \cup ReachableFrom(h, {2})
    IN  /\ \A p \in DOMAIN f : KindOf(g, p[1]).tag \notin LeafTags
        /\ \A p \in DOMAIN f : p[1] \in live
        /\ \A id \in DOMAIN g : id \in live

\* n slots filled, the target's from TargetSlotVals and the source's from
\* SourceSlotVals
MergeAssignments(n) ==
    UNION {{ft @@ fs : ft \in ExactAssignments(TargetPositions, TargetSlotVals, k),
                       fs \in ExactAssignments(SourcePositions, SourceSlotVals, n - k)}
           : k \in 0..n}

MergeGraphs ==
    {BuildHeap(MergeIds, x[1], x[2], "b") :
        x \in {y \in UNION {MergeAssignments(n)
                                \X BoundedAssignments(MergeIds, MergeKinds,
                                                      MaxMergeSize - n)
                            : n \in 0..MaxMergeSize} :
               MergeGraphOk(y[1], y[2])}}

\* options.shallow lists given to applyToDefaults
ApplyShallowLists == {<<<<"a">>>>, <<<<"0">>>>, <<<<"a", "a">>>>}

InitMerge ==
    /\ heap \in MergeGraphs
    /\ heap0 = heap
    /\ phase = "ready"
    /\ call = NoCall
    /\ ret = NoRet
    /\ tally = NoTally

\* merge(target, source, {nullOverride, mergeArrays})
DoMerge ==
    /\ phase = "ready"
    /\ \E nullOverride \in BOOLEAN, mergeArrays \in BOOLEAN :
        \E r \in {Merge(heap, MergeTarget, MergeSource,
                          MergeOpts(nullOverride, mergeArrays, TRUE))} :
            /\ heap' = r.h
            /\ ret' = [v |-> r.v, st |-> r.st]
            /\ call' = [op |-> "merge", obj |-> MergeTarget, source |-> MergeSource,
                        keys |-> <<>>, mergeArrays |-> mergeArrays,
                        nullOverride |-> IF nullOverride THEN "true" ELSE "false"]
    /\ phase' = "done"
    /\ UNCHANGED <<heap0, tally>>

\* applyToDefaults(defaults, source, {nullOverride, shallow})
DoApplyToDefaults ==
    /\ phase = "ready"
    /\ \E nullOverride \in {"undefined", "true", "false"},
          keys \in {<<>>} \cup ApplyShallowLists,
          source \in {MergeSource, True} :
        \E r \in {ApplyToDefaults(heap, MergeTarget, source, keys, nullOverride)} :
            /\ heap' = r.h
            /\ ret' = [v |-> r.v, st |-> r.st]
            /\ call' = [op |-> "applyToDefaults", obj |-> MergeTarget,
                        source |-> source, keys |-> keys, mergeArrays |-> FALSE,
                        nullOverride |-> nullOverride]
    /\ phase' = "done"
    /\ UNCHANGED <<heap0, tally>>

NextMerge == DoMerge \/ DoApplyToDefaults

SpecMerge == InitMerge /\ [][NextMerge]_vars

(***************************************************************************)
(* exports.contain(ref, values, options) with options.deep unset.  The     *)
(* arguments are values of their own: texts (sequences of characters),     *)
(* numbers, sequences of texts and numbers, and records over the keys "a"  *)
(* and "b" listed in that order.                                           *)
(***************************************************************************)
Text(s) == [t |-> "string", s |-> s, n |-> 0]
Num(n) == [t |-> "number", s |-> <<>>, n |-> n]
Missing == [t |-> "undefined", s |-> <<>>, n |-> 0]
List(items) == [t |-> "array", items |-> items]
Rec(a, b) == [t |-> "object", props |-> [key \in {"a", "b"} |-> IF key = "a" THEN a ELSE b]]

ContainOpts(once, only, part) == [once |-> once, only |-> only, part |-> part]

\* typeof v
TypeofValue(v) == IF v.t \in {"array", "object"} THEN "object" ELSE v.t

\* a === b; the objects passed as values are never the reference's items
StrictEquals(a, b) ==
    /\ a.t = b.t
    /\ a.t \in {"string", "number", "undefined"}
    /\ a.s = b.s
    /\ a.n = b.n

\* Object.keys(record) as texts
ObjectKeys(record) ==
    LET keep(key) == record.props[key] # Missing
        names == SelectSeq(<<"a", "b">>, keep)
    IN  [i \in 1..Len(names) |-> Text(<<names[i]>>)]

\* record[key] for a key given as text
ValueAt(record, key) == record.props[key.s[1]]

\* values.indexOf(x), counted from 1; 0 when x is not in the list
IndexOf(values, x) ==
    LET hits == {i \in 1..Len(values) : StrictEquals(values[i], x)}
    IN  IF hits = {} THEN 0 ELSE CHOOSE i \in hits : \A j \in hits : i <= j

\* the requested list and whether key:value pairs were given
RequestedValues(ref, values) ==
    IF /\ TypeofValue(ref) = "object" /\ TypeofValue(values) = "object"
       /\ ref.t # "array" /\ values.t # "array"
    THEN [pairs |-> TRUE, list |-> ObjectKeys(values)]
    ELSE [pairs |-> FALSE,
          list |-> IF values.t = "array" THEN values.items ELSE <<values>>]

\* matches = new Array(values.length), every slot 0
NewMatches(values) == [i \in 1..Len(values) |-> 0]

\* the text v stands in ref at position pos
MatchesAt(v, ref, pos) ==
    /\ pos + Len(v) - 1 <= Len(ref)
    /\ \A k \in 1..Len(v) : ref[pos + k - 1] = v[k]

\* ref.replace(regex, ...) for the alternation of the escaped values: at
\* every position the first alternative that stands there is removed and
\* counted in the slot values.indexOf finds; an empty match removes nothing
\* and the scan moves one character on
RECURSIVE ScanText(_, _, _, _, _)
ScanText(ref, pos, values, matches, leftovers) ==
    IF pos > Len(ref) + 1 THEN [matches |-> matches, leftovers |-> leftovers]
    ELSE LET alts == {i \in 1..Len(values) : MatchesAt(values[i].s, ref, pos)}
             kept == IF pos <= Len(ref) THEN Append(leftovers, ref[pos]) ELSE leftovers
         IN  IF alts = {} THEN ScanText(ref, pos + 1, values, matches, kept)
             ELSE LET i == CHOOSE a \in alts : \A b \in alts : a <= b
                      index == IndexOf(values, values[i])
                      counted == [matches EXCEPT ![index] = @ + 1]
                  IN  IF Len(values[i].s) > 0
                      THEN ScanText(ref, pos + Len(values[i].s), values, counted, leftovers)
                      ELSE ScanText(ref, pos + 1, values, counted, kept)

\* an inner loop that takes the first equal requested value, eligible or not
FirstMatchAnySlot(values, item, matches, onlyOnce) ==
    LET hits == {j \in 1..Len(values) : StrictEquals(values[j], item)}
    IN  IF hits = {} THEN 0 ELSE CHOOSE j \in hits : \A k \in hits : j <= k

\* the j of the inner loop: the first eligible requested value equal to item
FirstMatch(values, item, matches, onlyOnce) ==
    LET hits == {j \in 1..Len(values) :
                    (~onlyOnce \/ matches[j] = 0) /\ StrictEquals(values[j], item)}
    IN  IF hits = {} THEN 0 ELSE CHOOSE j \in hits : \A k \in hits : j <= k

\* the loop over the items of a sequence reference
RECURSIVE ScanItems(_, _, _, _, _, _)
ScanItems(items, i, values, matches, misses, onlyOnce) ==
    IF i > Len(items) THEN [matches |-> matches, misses |-> misses]
    ELSE LET matched == FirstMatch(values, items[i], matches, onlyOnce)
         IN  IF matched # 0
             THEN ScanItems(items, i + 1, values,
                            [matches EXCEPT ![matched] = @ + 1], misses, onlyOnce)
             ELSE ScanItems(items, i + 1, values, matches, TRUE, onlyOnce)

\* the loop over the keys of a record reference; failed is the early
\* return on a key whose value differs from the requested one
RECURSIVE ScanKeys(_, _, _, _, _, _, _)
ScanKeys(ref, keys, i, values, valuePairs, matches, misses) ==
    IF i > Len(keys) THEN [matches |-> matches, misses |-> misses, failed |-> FALSE]
    ELSE LET pos == IndexOf(values, keys[i])
         IN  IF pos = 0
             THEN ScanKeys(ref, keys, i + 1, values, valuePairs, matches, TRUE)
             ELSE IF /\ valuePairs.t = "object"
                     /\ ~StrictEquals(ValueAt(valuePairs, keys[i]), ValueAt(ref, keys[i]))
             THEN [matches |-> matches, misses |-> misses, failed |-> TRUE]
             ELSE ScanKeys(ref, keys, i + 1, values, valuePairs,
                           [matches EXCEPT ![pos] = @ + 1], misses)

\* the final verdict from the tally and the misses flag
Verdict(matches, misses, opts) ==
    IF opts.only /\ (misses \/ ~opts.once) THEN ~misses
    ELSE IF \E i \in 1..Len(matches) :
                \/ opts.once /\ matches[i] > 1
                \/ ~opts.part /\ matches[i] = 0
    THEN FALSE
    ELSE \E i \in 1..Len(matches) : matches[i] # 0

Outcome(st, v, matches, misses) ==
    [st |-> st, v |-> v, matches |-> matches, misses |-> misses]

Contain(ref, given, opts) ==
    LET req == RequestedValues(ref, given)
        values == req.list
        valuePairs == IF req.pairs THEN given ELSE Missing
        matches == NewMatches(values)
        onlyOnce == opts.only /\ opts.once
    IN  IF TypeofValue(ref) \notin {"string", "object"} \/ Len(values) = 0
        THEN Outcome("Error", Undef, <<>>, FALSE)
        ELSE IF ref.t = "string"
        THEN IF \E i \in 1..Len(values) : values[i].t # "string"
             THEN Outcome("Error", Undef, matches, FALSE)
             ELSE LET scan == ScanText(ref.s, 1, values, matches, <<>>)
                      misses == scan.leftovers # <<>>
                  IN  Outcome("ok", Verdict(scan.matches, misses, opts),
                              scan.matches, misses)
        ELSE IF ref.t = "array"
        THEN IF onlyOnce /\ Len(ref.items) # Len(values)
             THEN Outcome("ok", FALSE, matches, FALSE)
             ELSE LET scan == ScanItems(ref.items, 1, values, matches, FALSE, onlyOnce)
                  IN  Outcome("ok", Verdict(scan.matches, scan.misses, opts),
                              scan.matches, scan.misses)
        ELSE LET scan == ScanKeys(ref, ObjectKeys(ref), 1, values, valuePairs,
                                  matches, FALSE)
             IN  IF scan.failed THEN Outcome("ok", FALSE, scan.matches, scan.misses)
                 ELSE Outcome("ok", Verdict(scan.matches, scan.misses, opts),
                              scan.matches, scan.misses)

(***************************************************************************)
(* Contain calls: contain(ref, values, options) for every reference and    *)
(* every requested value or list within the bounds.                        *)
(***************************************************************************)
SeqsUpTo(S, n) == UNION {[1..k -> S] : k \in 0..n}

Chars == {"a", "b"}
Numbers == {Num(1), Num(2)}
Texts == {Text(<<>>), Text(<<"a">>), Text(<<"b">>), Text(<<"a", "b">>)}
Records == {Rec(a, b) : a \in Numbers \cup {Missing}, b \in Numbers \cup {Missing}}

ContainRefs ==
    {Text(s) : s \in SeqsUpTo(Chars, MaxRefLen)}
    \cup {List(items) : items \in SeqsUpTo(Numbers, MaxRefLen)}
    \cup Records \cup {Num(1)}

ContainValues ==
    {List(items) : items \in SeqsUpTo(Texts \cup Numbers, MaxValues)}
    \cup Texts \cup Numbers \cup Records

InitContain ==
    /\ heap = <<>>
    /\ heap0 = <<>>
    /\ phase = "ready"
    /\ call = NoCall
    /\ ret = NoRet
    /\ tally = NoTally

DoContain ==
    /\ phase = "ready"
    /\ \E ref \in ContainRefs, values \in ContainValues, once \in BOOLEAN,
          only \in BOOLEAN, part \in BOOLEAN :
            LET opts == ContainOpts(once, only, part)
                r == Contain(ref, values, opts)
            IN  /\ call' = [op |-> "contain", ref |-> ref, values |-> values,
                            opts |-> opts]
                /\ ret' = [v |-> IF r.st # "ok" THEN Undef
                                 ELSE IF r.v THEN True ELSE False,
                           st |-> r.st]
                /\ tally' = [matches |-> r.matches, misses |-> r.misses]
    /\ phase' = "done"
    /\ UNCHANGED <<heap, heap0>>

NextContain == DoContain

SpecContain == InitContain /\ [][NextContain]_vars

(***************************************************************************)
(* Vocabulary of the clone claims.                                         *)
(***************************************************************************)
IsCloneCall == phase = "done" /\ call.op = "clone"
\* a clone call made without a shallow option
IsDeepClone == IsCloneCall /\ call.opts.shallow = "false"
Returned == ret.st = "ok"

\* an object clone hands back by reference under the call's options
ByReference(obj, opts) ==
    obj.imm /\ opts.prototype /\ obj.tag \notin (LeafTags \cup {"array"})

\* structural equality of a value and its copy: same type tag, same payload,
\* same own keys, same number of elements, and recursively equal values; a
\* pair of objects met again on the way down is taken as equal.  With
\* symbols FALSE the symbol-keyed properties of the first are left out: the
\* second must own none.
RECURSIVE StructEq(_, _, _, _, _)
StructEq(h, v1, v2, symbols, visited) ==
    IF ~IsRef(v1) \/ ~IsRef(v2) THEN v1 = v2
    ELSE IF <<v1.n, v2.n>> \in visited THEN TRUE
    ELSE LET o1 == h[v1.n]
             o2 == h[v2.n]
             vis == visited \cup {<<v1.n, v2.n>>}
             expected(key) == IF ~symbols /\ key \in SymbolKeys /\ v1 # v2
                              THEN Absent ELSE o1.props[key]
         IN  /\ o1.tag = o2.tag
             /\ o1.data = o2.data
             /\ Len(o1.items) = Len(o2.items)
             /\ Len(o1.mkeys) = Len(o2.mkeys)
             /\ \A key \in KeySet : (expected(key) = Absent) <=> (o2.props[key] = Absent)
             /\ \A key \in KeySet : StructEq(h, expected(key), o2.props[key], symbols, vis)
             /\ \A j \in 1..Len(o1.items) : StructEq(h, o1.items[j], o2.items[j], symbols, vis)
             /\ \A j \in 1..Len(o1.mkeys) : StructEq(h, o1.mkeys[j], o2.mkeys[j], symbols, vis)

\* the mutable containers: records, sequences, keyed and unique-element
\* containers whose prototype does not declare immutability
MutableContainer(obj) == obj.tag \notin LeafTags /\ ~obj.imm

\* the objects of the copy that clone built: reached from the result by
\* properties, elements and map values, not entering an object handed back
\* by reference
RECURSIVE BuiltFrom(_, _, _)
BuiltFrom(h, ids, opts) ==
    LET next == ids \cup
            {v.n : v \in {w \in UNION {{h[i].props[key] : key \in KeySet}
                                       \cup {h[i].items[j] : j \in 1..Len(h[i].items)}
                                       : i \in ids} :
                          IsRef(w) /\ ~ByReference(h[w.n], opts)}}
    IN  IF next = ids THEN ids ELSE BuiltFrom(h, next, opts)

BuiltOf(h, v, opts) ==
    IF IsRef(v) /\ ~ByReference(h[v.n], opts) THEN BuiltFrom(h, {v.n}, opts) ELSE {}

\* source object / copy object pairs met by walking the same slots of the
\* source and of the copy side by side
SlotPairs(h, p) ==
    LET s == h[p[1]]
        c == h[p[2]]
    IN  {q \in {<<s.props[key], c.props[key]>> : key \in KeySet}
               \cup {<<s.items[j], c.items[j]>> :
                        j \in 1..(IF Len(s.items) < Len(c.items)
                                  THEN Len(s.items) ELSE Len(c.items))} :
         IsRef(q[1]) /\ IsRef(q[2])}

RECURSIVE CorrFrom(_, _)
CorrFrom(h, pairs) ==
    LET next == pairs \cup
            {<<q[1].n, q[2].n>> : q \in UNION {SlotPairs(h, p) :
                                        p \in {r \in pairs : r[1] # r[2]}}}
    IN  IF next = pairs THEN pairs ELSE CorrFrom(h, next)

Corr == IF IsRef(ret.v) THEN CorrFrom(heap, {<<call.obj.n, ret.v.n>>}) ELSE {}

SourceIds == ReachableOf(heap0, call.obj)

\* C1 (as stated): every clone call made without a shallow option returns a
\* graph structurally equal to its argument that shares no mutable container
\* with it.
C1_CloneEqualAndDisjoint ==
    IsDeepClone =>
        /\ Returned
        /\ StructEq(heap, call.obj, ret.v, TRUE, {})
        /\ \A id \in ReachableOf(heap, ret.v) \cap SourceIds :
                ~MutableContainer(heap[id])

\* C1 (amended): a clone call made without a shallow option returns a graph
\* structurally equal to its argument, the symbol-keyed properties left out
\* when options.symbols is false; and every object clone built for it
\* (reached from the result by properties, elements and map values, not
\* through an object handed back by reference) is a new object, none of the
\* source's.  Map keys and objects whose prototype declares isImmutable are
\* handed back by reference.
C1_CloneEqualAndFresh ==
    IsDeepClone =>
        /\ Returned
        /\ StructEq(heap, call.obj, ret.v, call.opts.symbols, {})
        /\ BuiltOf(heap, ret.v, call.opts) \cap SourceIds = {}

\* C1 witness: a deep clone of a graph whose root holds a mutable container
\* returned a new root holding a new container
C1_Witness ==
    /\ IsDeepClone /\ Returned /\ call.opts.symbols
    /\ ret.v # call.obj
    /\ \E key \in KeySet :
        /\ IsRef(heap0[1].props[key])
        /\ heap0[1].props[key] # call.obj
        /\ MutableContainer(heap0[heap0[1].props[key].n])
        /\ IsRef(heap[ret.v.n].props[key])
        /\ heap[ret.v.n].props[key].n > Len(heap0)

C3_EverySourceCopiedOnce ==
    (IsDeepClone /\ Returned) =>
        \A p \in Corr, q \in Corr : p[1] = q[1] => p[2] = q[2]

\* C4 (as stated): under every options record, clone hands back an object
\* whose prototype declares isImmutable by reference, at the top level and
\* nested, and creates no copy of it.
C4_ImmutableNeverCopied ==
    (IsCloneCall /\ Returned) =>
        /\ heap0[1].imm => (ret.v = call.obj /\ Len(heap) = Len(heap0))
        /\ \A p \in Corr : heap0[p[1]].imm => p[2] = p[1]

\* C4 (amended): a clone call that returns hands back by reference, at the
\* top level and nested, every object whose prototype declares isImmutable,
\* provided options.prototype is not false and the object is not a sequence,
\* date, pattern or byte buffer (any setting of symbols and shallow); at the
\* top level no object is created.
C4_ImmutableByReference ==
    (IsCloneCall /\ Returned) =>
        /\ ByReference(heap0[1], call.opts)
                => (ret.v = call.obj /\ Len(heap) = Len(heap0))
        /\ \A p \in Corr : ByReference(heap0[p[1]], call.opts) => p[2] = p[1]

\* C4 witness: a deep clone of a mutable record returned a new record that
\* holds the source's immutable child by reference
C4_Witness ==
    /\ IsDeepClone /\ Returned
    /\ ret.v # call.obj
    /\ IsRef(heap0[1].props["a"])
    /\ heap0[heap0[1].props["a"].n].imm
    /\ heap0[1].props["a"] # call.obj
    /\ heap[ret.v.n].props["a"] = heap0[1].props["a"]

\* C6: a clone call with a list of key-paths ends with every listed path of
\* the source holding the reference it held before, the copy holding that
\* same reference at the same path, and no placeholder left behind.
C6_ShallowPathsShared ==
    (IsCloneCall /\ call.keys # <<>>) =>
        /\ Returned
        /\ \A j \in 1..Len(call.keys) :
            /\ Reach(heap, call.obj, call.keys[j]) = Reach(heap0, call.obj, call.keys[j])
            /\ Reach(heap, ret.v, call.keys[j]) = Reach(heap0, call.obj, call.keys[j])

(***************************************************************************)
(* Vocabulary of the merge claims.                                         *)
(***************************************************************************)
IsMergeCall == phase = "done" /\ call.op = "merge"
IsApplyCall == phase = "done" /\ call.op = "applyToDefaults"

\* the own keys of an object as internals.keys lists them
OwnKeys(obj) == {key \in KeySet : obj.props[key] # Absent}

\* the (target object, source object) pairs merge recurses into, read off
\* the graphs as they were when the call started
RECURSIVE MergePairsFrom(_, _)
MergePairsFrom(h, pairs) ==
    LET next == pairs \cup
            {<<q[1].n, q[2].n>> :
                q \in {r \in UNION {{<<Get(h, Ref(p[1]), key), Get(h, Ref(p[2]), key)>> :
                                        key \in OwnKeys(h[p[2]])}
                                    : p \in {x \in pairs : h[x[2]].tag # "array"}} :
                       IsRef(r[2]) /\ ~Replaces(h, r[1], r[2])}}
    IN  IF next = pairs THEN pairs ELSE MergePairsFrom(h, next)

MergePairs == MergePairsFrom(heap0, {<<call.obj.n, call.source.n>>})

\* the number of slots of the objects ids that refer to object id
RefCount(h, ids, id) ==
    Cardinality({<<i, key>> \in ids \X KeySet : h[i].props[key] = Ref(id)})
    + Cardinality({<<i, j>> \in ids \X (1..2) :
                        j <= Len(h[i].items) /\ h[i].items[j] = Ref(id)})

\* the target graph is a tree that shares nothing with the source graph
TargetIsTree ==
    LET tids == ReachableOf(heap0, call.obj)
    IN  /\ tids \cap ReachableOf(heap0, call.source) = {}
        /\ \A id \in tids :
                RefCount(heap0, tids, id) = (IF id = call.obj.n THEN 0 ELSE 1)

\* what merge leaves at target[key] for a source value that is no object
PriorityHolds(p, key) ==
    LET value == heap0[p[2]].props[key]
    IN  IF value \notin {Null, Undef}
        THEN Get(heap, Ref(p[1]), key) = value
        ELSE IF call.nullOverride = "true"
        THEN Get(heap, Ref(p[1]), key) = value
        ELSE Slot(heap[p[1]], key) = Slot(heap0[p[1]], key)

\* C5: every merge and applyToDefaults call, returning or raising, ends with
\* the source graph as it was: every object of it with the same own keys and
\* the same value references.
C5_SourceUnchanged ==
    ((IsMergeCall \/ IsApplyCall) /\ IsRef(call.source)) =>
        \A id \in ReachableOf(heap0, call.source) : heap[id] = heap0[id]

C8_NullKeepsDefaults ==
    (IsApplyCall /\ Returned /\ IsRef(call.source)) =>
        \A key \in OwnKeys(heap0[call.source.n]) :
            heap0[call.source.n].props[key] \in {Null, Undef} =>
                LET d == Get(heap0, call.obj, key)
                IN  IF call.nullOverride = "true"
                    THEN Get(heap, ret.v, key) = heap0[call.source.n].props[key]
                    ELSE IF IsRef(d) THEN IsRef(Get(heap, ret.v, key))
                    ELSE Get(heap, ret.v, key) = d

\* C10: merge terminates for every pair of finite graphs, cyclic ones
\* included: the recursion into an existing target slot never runs until the
\* call stack is exhausted.
C10_MergeTerminates ==
    IsMergeCall => ret.st # "RangeError"

(***************************************************************************)
(* Vocabulary of the contain claims.                                       *)
(***************************************************************************)
IsContainCall == phase = "done" /\ call.op = "contain"

\* the requested values or keys of the call, as contain lists them
Requested == RequestedValues(call.ref, call.values).list

\* C9: in every contain call the tally has exactly one slot per distinct
\* requested value or key, so that naming a value twice yields no slot that
\* can never be incremented.
C9_OneSlotPerDistinctValue ==
    (IsContainCall /\ tally.matches # <<>>) =>
        Len(tally.matches) = Cardinality({Requested[i] : i \in 1..Len(Requested)})

\* the number of entries of a list equal to x
CountOf(list, x) == Cardinality({i \in 1..Len(list) : list[i] = x})

\* two lists hold the same values the same number of times each
SameMultiset(xs, ys) ==
    /\ Len(xs) = Len(ys)
    /\ \A i \in 1..Len(xs) : CountOf(xs, xs[i]) = CountOf(ys, xs[i])

\* a call on a sequence reference with once and only both requested
IsOnceOnlyCall ==
    /\ IsContainCall
    /\ call.ref.t = "array"
    /\ call.opts.once /\ call.opts.only

\* C11: for a sequence reference with once and only requested and plain
\* equality, a contain call that returns (the requested list is not empty)
\* returns true exactly when the reference and the requested values are
\* equal as multisets, whatever the order of either list.
C11_OnceOnlyIsMultisetEquality ==
    (IsOnceOnlyCall /\ ret.st = "ok") =>
        ((ret.v = True) <=> SameMultiset(call.ref.items, Requested))

\* C11 witness: a reference holding a value twice is accepted against a
\* requested list naming it twice, the second occurrence counted in the
\* second slot
C11_Witness ==
    /\ IsOnceOnlyCall /\ ret = [v |-> True, st |-> "ok"]
    /\ call.ref.items = <<Num(1), Num(1)>>
    /\ Requested = <<Num(1), Num(1)>>
    /\ tally.matches = <<1, 1>>

====
